---- MODULE Spec2Model ----
(***************************************************************************)
(* The STREAM online authenticated encryption construction of stream.rs:   *)
(* the nonce encoder NonceEncoder32, the Encryptor and the Decryptor built *)
(* on it, the wire between them, and an attacker who chooses what the      *)
(* Decryptor is given.  The AEAD (crate::Aead) is an external collaborator *)
(* and is modelled as an ideal AEAD: a ciphertext is the symbolic term of  *)
(* what was encrypted, and decryption succeeds only on a matching term.    *)
(***************************************************************************)
EXTENDS Integers, Sequences, FiniteSets, TLC

(***************************************************************************)
(* Program constants.                                                      *)
(***************************************************************************)
NONCE_SIZE == 8

LAST_BLOCK_FLAG == 1

(***************************************************************************)
(* Bounds.  The counter is a u32 in the program; the model keeps the       *)
(* checked addition but gives the counter CounterBits bits, so that the    *)
(* overflow is reachable.  MaxMsgs caps the AEAD calls one Encryptor makes *)
(* in the specifications Spec and SpecSwap, MaxMultiMsgs in SpecMulti.     *)
(* MaxRetries is the number of decrypt_next calls that SpecRetry lets fail *)
(* during one stream.                                                      *)
(***************************************************************************)
CounterBits == 2

MaxMsgs == 3

MaxMultiMsgs == 2

MaxRetries == 3

U32_MAX == 2^CounterBits - 1

(***************************************************************************)
(* Inputs.                                                                 *)
(***************************************************************************)
Keys == {"K1", "K2"}

PA == <<0, 0, 0, 0, 0, 0, 0, 0>>

PB == <<0, 0, 0, 0, 0, 0, 0, 1>>

PShort == <<0, 0, 0, 0, 0, 0, 0>>

PLong == <<0, 0, 0, 0, 0, 0, 0, 0, 0>>

Prefixes == {PA, PB, PShort, PLong}

ADs == {"A0", "A1"}

Msg0 == [ad |-> "A0", pt |-> "hello"]

Msg1 == [ad |-> "A1", pt |-> "world"]

Msgs == {Msg0, Msg1}

\* The instances that exist, and the ones that Spec, SpecOverflow and
\* SpecSwap use.
Encryptors == {1, 2}

Decryptors == {1, 2}

EncIds == {1}

DecIds == {1}

(***************************************************************************)
(* encs, decs: the Encryptor and Decryptor objects.  The other variables   *)
(* record what the objects did: encArgs and decArgs the arguments of new,  *)
(* encLog the AEAD encryptions of each Encryptor, received the plaintexts  *)
(* each Decryptor returned, lastCall the last call made on any object.     *)
(* feed and results belong to the caller of SpecSwap and SpecRetry, who    *)
(* drives a Decryptor over a stream; calls is the caller's record, in      *)
(* SpecMix, of every method called, the nonce it gave the AEAD and what it *)
(* returned.                                                               *)
(***************************************************************************)
VARIABLES encs, decs, encArgs, decArgs, encLog, received, lastCall, feed, results,
          calls

vars == <<encs, decs, encArgs, decArgs, encLog, received, lastCall, feed, results,
          calls>>

driver == <<feed, results, calls>>

(***************************************************************************)
(* The ideal AEAD.  t = 0 marks a ciphertext that encrypt produced; any    *)
(* other byte string (a flipped bit, a forgery) is a term with t = 1.      *)
(***************************************************************************)
NoCt == [k |-> "none", n |-> <<>>, a |-> "none", p |-> "none", t |-> 1]

Aead_encrypt(key, nonce, ad, plaintext) ==
    [k |-> key, n |-> nonce, a |-> ad, p |-> plaintext, t |-> 0]

Aead_decrypt(key, nonce, ad, ciphertext) ==
    IF ciphertext.t = 0 /\ ciphertext.k = key /\ ciphertext.n = nonce
                        /\ ciphertext.a = ad
    THEN [ok |-> TRUE, val |-> ciphertext.p]
    ELSE [ok |-> FALSE, val |-> "none"]

Tamper(ciphertext) == [ciphertext EXCEPT !.t = 1]

(***************************************************************************)
(* NonceEncoder32.                                                         *)
(***************************************************************************)
to_be_bytes(c) ==
    << (c \div 16777216) % 256, (c \div 65536) % 256, (c \div 256) % 256, c % 256 >>

NoNonce == [value |-> <<>>, counter |-> 0]

\* The length check rejecting only a prefix that is too short.
NonceEncoder32_new_panics_ShortOnly(prefix) == Len(prefix) < NONCE_SIZE

NonceEncoder32_new_panics(prefix) == Len(prefix) # NONCE_SIZE

\* new that leaves the value at its default and never copies the prefix.
NonceEncoder32_new_NoCopy(prefix) ==
    [value |-> [i \in 1..(NONCE_SIZE + 4 + 1) |-> 0], counter |-> 0]

NonceEncoder32_new(prefix) ==
    [value |-> [i \in 1..(NONCE_SIZE + 4 + 1) |->
                   IF i <= NONCE_SIZE THEN prefix[i] ELSE 0],
     counter |-> 0]

\* An unchecked addition: the overflow is never reported.
checked_add_is_none_Never(counter) == FALSE

checked_add_is_none(counter) == counter + 1 > U32_MAX

\* increment writing the counter in little-endian byte order.
increment_LittleEndian(n) ==
    LET c == n.counter + 1 IN
    [counter |-> c,
     value |-> [i \in 1..Len(n.value) |->
                   IF i > NONCE_SIZE /\ i <= NONCE_SIZE + 4
                   THEN to_be_bytes(c)[NONCE_SIZE + 5 - i]
                   ELSE n.value[i]]]

\* increment that does nothing.
increment_Noop(n) == n

\* increment that keeps the counter but never re-encodes it into value.
increment_NoEncode(n) == [n EXCEPT !.counter = n.counter + 1]

increment(n) ==
    LET c == n.counter + 1 IN
    [counter |-> c,
     value |-> [i \in 1..Len(n.value) |->
                   IF i > NONCE_SIZE /\ i <= NONCE_SIZE + 4
                   THEN to_be_bytes(c)[i - NONCE_SIZE]
                   ELSE n.value[i]]]

\* as_slice lending only the prefix bytes of the value.
as_slice_PrefixOnly(n) == SubSeq(n.value, 1, NONCE_SIZE)

as_slice(n) == n.value

\* finish that returns the value without setting the last block flag.
finish_NoFlag(n) == n.value

finish(n) == [n.value EXCEPT ![Len(n.value)] = LAST_BLOCK_FLAG]

(***************************************************************************)
(* Objects.  An Encryptor or Decryptor owns an AEAD instance (its key) and *)
(* a NonceEncoder32.  state is the lifecycle of the object: "Unbuilt"      *)
(* before construction, "Active" while it can be called, "Consumed" after  *)
(* a method that takes self by value, "Panicked" after a panic (of the     *)
(* constructor: no object exists; of increment: the call never returned).  *)
(***************************************************************************)
NoObject == [state |-> "Unbuilt", alg |-> "none", nonce |-> NoNonce]

NoCall == [op |-> "none", id |-> 0, nonce |-> <<>>, ad |-> "none",
           ct |-> NoCt, result |-> "none"]

Call(op, id, nonce, ad, ct, result) ==
    [op |-> op, id |-> id, nonce |-> nonce, ad |-> ad, ct |-> ct,
     result |-> result]

NoFeed == [d |-> 0, i |-> 0, j |-> 0, items |-> <<>>]

NoArgs == [key |-> "none", nonce |-> <<>>]

Init ==
    /\ encs = [e \in Encryptors |-> NoObject]
    /\ decs = [d \in Decryptors |-> NoObject]
    /\ encLog = [e \in Encryptors |-> <<>>]
    /\ received = [d \in Decryptors |-> <<>>]
    /\ lastCall = NoCall
    /\ encArgs = [e \in Encryptors |-> NoArgs]
    /\ decArgs = [d \in Decryptors |-> NoArgs]
    /\ feed = NoFeed
    /\ results = <<>>
    /\ calls = <<>>

(***************************************************************************)
(* What the attacker can hand to a Decryptor: every ciphertext that left   *)
(* an Encryptor (returned, or written to the caller's buffer), the same    *)
(* with a bit flipped, and a forgery.                                      *)
(***************************************************************************)
Wire ==
    UNION { { encLog[e][i].ct : i \in { j \in DOMAIN encLog[e] : encLog[e][j].avail } }
            : e \in Encryptors }

DecInputs == Wire \cup { Tamper(c) : c \in Wire } \cup {NoCt}

(***************************************************************************)
(* One entry of encLog per AEAD encryption an Encryptor performed.  done   *)
(* tells whether the call returned; avail whether its ciphertext left the  *)
(* Encryptor (the in-place variant has written the caller's buffer before  *)
(* increment can panic, the allocating variant drops its Vec).             *)
(***************************************************************************)
LogEntry(kind, nonce, ad, pt, ct, done, avail) ==
    [kind |-> kind, nonce |-> nonce, ad |-> ad, pt |-> pt, ct |-> ct,
     done |-> done, avail |-> avail]

(***************************************************************************)
(* Encryptor.                                                              *)
(***************************************************************************)
Encryptor_new(e, key, nonce) ==
    /\ encs[e].state = "Unbuilt"
    /\ encs' = [encs EXCEPT ![e] =
                  IF NonceEncoder32_new_panics(nonce)
                  THEN [state |-> "Panicked", alg |-> "none", nonce |-> NoNonce]
                  ELSE [state |-> "Active", alg |-> key,
                        nonce |-> NonceEncoder32_new(nonce)]]
    /\ lastCall' = Call("Encryptor_new", e, nonce, "none", NoCt,
                        IF NonceEncoder32_new_panics(nonce) THEN "panic" ELSE "ok")
    /\ encArgs' = [encArgs EXCEPT ![e] = [key |-> key, nonce |-> nonce]]
    /\ UNCHANGED <<decs, decArgs, encLog, received>>

\* encrypt_next that calls increment() before the AEAD: the overflowing call
\* panics with the buffer untouched, and each message is sealed under the
\* nonce that follows the current one.
EncryptNextBody_IncrementFirst(op, inPlace, e, ad, plaintext) ==
    LET self == encs[e]
        overflow == checked_add_is_none(self.nonce.counter)
        n == as_slice(increment(self.nonce))
        ciphertext == Aead_encrypt(self.alg, n, ad, plaintext)
    IN  /\ self.state = "Active"
        /\ IF overflow
           THEN /\ encs' = [encs EXCEPT ![e] = [self EXCEPT !.state = "Panicked"]]
                /\ lastCall' = Call(op, e, NoNonce, ad, NoCt, "panic")
                /\ UNCHANGED encLog
           ELSE /\ encLog' = [encLog EXCEPT ![e] =
                                Append(@, LogEntry("next", n, ad, plaintext,
                                                   ciphertext, TRUE, TRUE))]
                /\ encs' = [encs EXCEPT ![e] =
                              [self EXCEPT !.nonce = increment(self.nonce)]]
                /\ lastCall' = Call(op, e, n, ad, ciphertext, "ok")
        /\ UNCHANGED <<decs, encArgs, decArgs, received>>

\* encrypt_next over a sequencer that all Encryptors share.
EncryptNextBody_SharedNonce(op, inPlace, e, ad, plaintext) ==
    LET self == encs[e]
        n == as_slice(self.nonce)
        ciphertext == Aead_encrypt(self.alg, n, ad, plaintext)
        overflow == checked_add_is_none(self.nonce.counter)
    IN  /\ self.state = "Active"
        /\ encLog' = [encLog EXCEPT ![e] =
                        Append(@, LogEntry("next", n, ad, plaintext, ciphertext,
                                           ~overflow, inPlace \/ ~overflow))]
        /\ encs' = [x \in DOMAIN encs |->
                      IF overflow
                      THEN (IF x = e THEN [self EXCEPT !.state = "Panicked"]
                                     ELSE encs[x])
                      ELSE IF encs[x].state = "Active"
                           THEN [encs[x] EXCEPT !.nonce = increment(self.nonce)]
                           ELSE encs[x]]
        /\ lastCall' = Call(op, e, n, ad,
                            IF overflow /\ ~inPlace THEN NoCt ELSE ciphertext,
                            IF overflow THEN "panic" ELSE "ok")
        /\ UNCHANGED <<decs, encArgs, decArgs, received>>

\* The body shared by encrypt_next_in_place and encrypt_next: the AEAD
\* transform under as_slice(), then increment().
EncryptNextBody(op, inPlace, e, ad, plaintext) ==
    LET self == encs[e]
        n == as_slice(self.nonce)
        ciphertext == Aead_encrypt(self.alg, n, ad, plaintext)
        overflow == checked_add_is_none(self.nonce.counter)
    IN  /\ self.state = "Active"
        /\ encLog' = [encLog EXCEPT ![e] =
                        Append(@, LogEntry("next", n, ad, plaintext, ciphertext,
                                           ~overflow, inPlace \/ ~overflow))]
        /\ encs' = [encs EXCEPT ![e] =
                      IF overflow
                      THEN [self EXCEPT !.state = "Panicked"]
                      ELSE [self EXCEPT !.nonce = increment(self.nonce)]]
        /\ lastCall' = Call(op, e, n, ad,
                            IF overflow /\ ~inPlace THEN NoCt ELSE ciphertext,
                            IF overflow THEN "panic" ELSE "ok")
        /\ UNCHANGED <<decs, encArgs, decArgs, received>>

\* encrypt_next_in_place without its self.nonce.increment().
encrypt_next_in_place_NoIncrement(e, ad, buffer) ==
    LET self == encs[e]
        n == as_slice(self.nonce)
        ciphertext == Aead_encrypt(self.alg, n, ad, buffer)
    IN  /\ self.state = "Active"
        /\ encLog' = [encLog EXCEPT ![e] =
                        Append(@, LogEntry("next", n, ad, buffer, ciphertext,
                                           TRUE, TRUE))]
        /\ lastCall' = Call("encrypt_next_in_place", e, n, ad, ciphertext, "ok")
        /\ UNCHANGED <<encs, decs, encArgs, decArgs, received>>

encrypt_next_in_place(e, ad, buffer) ==
    EncryptNextBody("encrypt_next_in_place", TRUE, e, ad, buffer)

encrypt_next(e, ad, plaintext) ==
    EncryptNextBody("encrypt_next", FALSE, e, ad, plaintext)

\* encrypt_last that advances the counter with increment() before finish().
EncryptLastBody_Increments(op, e, ad, plaintext) ==
    LET self == encs[e]
        overflow == checked_add_is_none(self.nonce.counter)
        n == finish(increment(self.nonce))
        ciphertext == Aead_encrypt(self.alg, n, ad, plaintext)
    IN  /\ self.state = "Active"
        /\ IF overflow
           THEN /\ encs' = [encs EXCEPT ![e] = [self EXCEPT !.state = "Panicked"]]
                /\ lastCall' = Call(op, e, NoNonce, ad, NoCt, "panic")
                /\ UNCHANGED encLog
           ELSE /\ encLog' = [encLog EXCEPT ![e] =
                                Append(@, LogEntry("last", n, ad, plaintext,
                                                   ciphertext, TRUE, TRUE))]
                /\ encs' = [encs EXCEPT ![e] =
                              [self EXCEPT !.state = "Consumed",
                                           !.nonce = [increment(self.nonce)
                                                        EXCEPT !.value = n]]]
                /\ lastCall' = Call(op, e, n, ad, ciphertext, "ok")
        /\ UNCHANGED <<decs, encArgs, decArgs, received>>

\* encrypt_last borrowing self instead of taking it by value.
EncryptLastBody_StaysActive(op, e, ad, plaintext) ==
    LET self == encs[e]
        n == finish(self.nonce)
        ciphertext == Aead_encrypt(self.alg, n, ad, plaintext)
    IN  /\ self.state = "Active"
        /\ encLog' = [encLog EXCEPT ![e] =
                        Append(@, LogEntry("last", n, ad, plaintext, ciphertext,
                                           TRUE, TRUE))]
        /\ lastCall' = Call(op, e, n, ad, ciphertext, "ok")
        /\ UNCHANGED <<encs, decs, encArgs, decArgs, received>>

\* The body shared by encrypt_last_in_place and encrypt_last: self is taken
\* by value, the AEAD transform runs under finish().
EncryptLastBody(op, e, ad, plaintext) ==
    LET self == encs[e]
        n == finish(self.nonce)
        ciphertext == Aead_encrypt(self.alg, n, ad, plaintext)
    IN  /\ self.state = "Active"
        /\ encLog' = [encLog EXCEPT ![e] =
                        Append(@, LogEntry("last", n, ad, plaintext, ciphertext,
                                           TRUE, TRUE))]
        /\ encs' = [encs EXCEPT ![e] =
                      [self EXCEPT !.state = "Consumed", !.nonce.value = n]]
        /\ lastCall' = Call(op, e, n, ad, ciphertext, "ok")
        /\ UNCHANGED <<decs, encArgs, decArgs, received>>

encrypt_last_in_place(e, ad, buffer) ==
    EncryptLastBody("encrypt_last_in_place", e, ad, buffer)

encrypt_last(e, ad, plaintext) ==
    EncryptLastBody("encrypt_last", e, ad, plaintext)

(***************************************************************************)
(* Decryptor.                                                              *)
(***************************************************************************)
Decryptor_new(d, key, nonce) ==
    /\ decs[d].state = "Unbuilt"
    /\ decs' = [decs EXCEPT ![d] =
                  IF NonceEncoder32_new_panics(nonce)
                  THEN [state |-> "Panicked", alg |-> "none", nonce |-> NoNonce]
                  ELSE [state |-> "Active", alg |-> key,
                        nonce |-> NonceEncoder32_new(nonce)]]
    /\ lastCall' = Call("Decryptor_new", d, nonce, "none", NoCt,
                        IF NonceEncoder32_new_panics(nonce) THEN "panic" ELSE "ok")
    /\ decArgs' = [decArgs EXCEPT ![d] = [key |-> key, nonce |-> nonce]]
    /\ UNCHANGED <<encs, encArgs, encLog, received>>

\* decrypt_next that gives the Decryptor up when the AEAD fails.
DecryptNextBody_PoisonOnFailure(op, d, ad, ciphertext) ==
    LET self == decs[d]
        n == as_slice(self.nonce)
        result == Aead_decrypt(self.alg, n, ad, ciphertext)
        overflow == checked_add_is_none(self.nonce.counter)
    IN  /\ self.state = "Active"
        /\ IF ~result.ok
           THEN /\ decs' = [decs EXCEPT ![d] = [self EXCEPT !.state = "Panicked"]]
                /\ lastCall' = Call(op, d, n, ad, ciphertext, "err")
                /\ UNCHANGED received
           ELSE IF overflow
           THEN /\ decs' = [decs EXCEPT ![d] = [self EXCEPT !.state = "Panicked"]]
                /\ lastCall' = Call(op, d, n, ad, ciphertext, "panic")
                /\ UNCHANGED received
           ELSE /\ decs' = [decs EXCEPT ![d] =
                              [self EXCEPT !.nonce = increment(self.nonce)]]
                /\ received' = [received EXCEPT ![d] =
                                  Append(@, [ad |-> ad, pt |-> result.val])]
                /\ lastCall' = Call(op, d, n, ad, ciphertext, "ok")
        /\ UNCHANGED <<encs, encArgs, decArgs, encLog>>

\* decrypt_next that increments before it looks at the AEAD's result.
DecryptNextBody_AdvanceOnFailure(op, d, ad, ciphertext) ==
    LET self == decs[d]
        n == as_slice(self.nonce)
        result == Aead_decrypt(self.alg, n, ad, ciphertext)
        overflow == checked_add_is_none(self.nonce.counter)
    IN  /\ self.state = "Active"
        /\ decs' = [decs EXCEPT ![d] =
                      IF overflow
                      THEN [self EXCEPT !.state = "Panicked"]
                      ELSE [self EXCEPT !.nonce = increment(self.nonce)]]
        /\ received' = [received EXCEPT ![d] =
                          IF result.ok /\ ~overflow
                          THEN Append(@, [ad |-> ad, pt |-> result.val])
                          ELSE @]
        /\ lastCall' = Call(op, d, n, ad, ciphertext,
                            IF overflow THEN "panic"
                            ELSE IF result.ok THEN "ok" ELSE "err")
        /\ UNCHANGED <<encs, encArgs, decArgs, encLog>>

\* decrypt_next that forgets self.nonce.increment() after a success.
DecryptNextBody_NoIncrement(op, d, ad, ciphertext) ==
    LET self == decs[d]
        n == as_slice(self.nonce)
        result == Aead_decrypt(self.alg, n, ad, ciphertext)
    IN  /\ self.state = "Active"
        /\ IF ~result.ok
           THEN /\ lastCall' = Call(op, d, n, ad, ciphertext, "err")
                /\ UNCHANGED <<decs, received>>
           ELSE /\ received' = [received EXCEPT ![d] =
                                  Append(@, [ad |-> ad, pt |-> result.val])]
                /\ lastCall' = Call(op, d, n, ad, ciphertext, "ok")
                /\ UNCHANGED decs
        /\ UNCHANGED <<encs, encArgs, decArgs, encLog>>

\* The body shared by decrypt_next_in_place and decrypt_next: the AEAD
\* transform under as_slice(); `?` returns the error; else increment().
DecryptNextBody(op, d, ad, ciphertext) ==
    LET self == decs[d]
        n == as_slice(self.nonce)
        result == Aead_decrypt(self.alg, n, ad, ciphertext)
        overflow == checked_add_is_none(self.nonce.counter)
    IN  /\ self.state = "Active"
        /\ IF ~result.ok
           THEN /\ lastCall' = Call(op, d, n, ad, ciphertext, "err")
                /\ UNCHANGED <<decs, encArgs, decArgs, received>>
           ELSE IF overflow
           THEN /\ decs' = [decs EXCEPT ![d] = [self EXCEPT !.state = "Panicked"]]
                /\ lastCall' = Call(op, d, n, ad, ciphertext, "panic")
                /\ UNCHANGED received
           ELSE /\ decs' = [decs EXCEPT ![d] =
                              [self EXCEPT !.nonce = increment(self.nonce)]]
                /\ received' = [received EXCEPT ![d] =
                                  Append(@, [ad |-> ad, pt |-> result.val])]
                /\ lastCall' = Call(op, d, n, ad, ciphertext, "ok")
        /\ UNCHANGED <<encs, encArgs, decArgs, encLog>>

decrypt_next_in_place(d, ad, buffer) ==
    DecryptNextBody("decrypt_next_in_place", d, ad, buffer)

decrypt_next(d, ad, ciphertext) ==
    DecryptNextBody("decrypt_next", d, ad, ciphertext)

\* decrypt_last that passes as_slice() to the AEAD instead of finish().
DecryptLastBody_NoFinish(op, d, ad, ciphertext) ==
    LET self == decs[d]
        n == as_slice(self.nonce)
        result == Aead_decrypt(self.alg, n, ad, ciphertext)
    IN  /\ self.state = "Active"
        /\ decs' = [decs EXCEPT ![d] = [self EXCEPT !.state = "Consumed"]]
        /\ received' = [received EXCEPT ![d] =
                          IF result.ok
                          THEN Append(@, [ad |-> ad, pt |-> result.val])
                          ELSE @]
        /\ lastCall' = Call(op, d, n, ad, ciphertext,
                            IF result.ok THEN "ok" ELSE "err")
        /\ UNCHANGED <<encs, encArgs, decArgs, encLog>>

\* The body shared by decrypt_last_in_place and decrypt_last: self is taken
\* by value, the AEAD transform runs under finish(), its Result is returned.
DecryptLastBody(op, d, ad, ciphertext) ==
    LET self == decs[d]
        n == finish(self.nonce)
        result == Aead_decrypt(self.alg, n, ad, ciphertext)
    IN  /\ self.state = "Active"
        /\ decs' = [decs EXCEPT ![d] =
                      [self EXCEPT !.state = "Consumed", !.nonce.value = n]]
        /\ received' = [received EXCEPT ![d] =
                          IF result.ok
                          THEN Append(@, [ad |-> ad, pt |-> result.val])
                          ELSE @]
        /\ lastCall' = Call(op, d, n, ad, ciphertext,
                            IF result.ok THEN "ok" ELSE "err")
        /\ UNCHANGED <<encs, encArgs, decArgs, encLog>>

decrypt_last_in_place(d, ad, buffer) ==
    DecryptLastBody("decrypt_last_in_place", d, ad, buffer)

decrypt_last(d, ad, ciphertext) ==
    DecryptLastBody("decrypt_last", d, ad, ciphertext)

(***************************************************************************)
(* One step of the system: a caller constructs or drives an Encryptor or a *)
(* Decryptor.  The Decryptor's input is the attacker's choice.  Encryptors *)
(* take their key from encKeys, Decryptors from keys; an Encryptor makes   *)
(* at most cap AEAD calls.                                                 *)
(***************************************************************************)
CanSend(cap) == { e \in EncIds : Len(encLog[e]) < cap }

Step(encKeys, keys, prefixes, msgs, cap) ==
    \/ \E e \in EncIds, k \in encKeys, p \in prefixes :
          Encryptor_new(e, k, p) /\ UNCHANGED driver
    \/ \E d \in DecIds, k \in keys, p \in prefixes :
          Decryptor_new(d, k, p) /\ UNCHANGED driver
    \/ \E e \in CanSend(cap), m \in msgs :
          encrypt_next_in_place(e, m.ad, m.pt) /\ UNCHANGED driver
    \/ \E e \in CanSend(cap), m \in msgs :
          encrypt_next(e, m.ad, m.pt) /\ UNCHANGED driver
    \/ \E e \in CanSend(cap), m \in msgs :
          encrypt_last_in_place(e, m.ad, m.pt) /\ UNCHANGED driver
    \/ \E e \in CanSend(cap), m \in msgs :
          encrypt_last(e, m.ad, m.pt) /\ UNCHANGED driver
    \/ \E d \in DecIds, ad \in ADs, ct \in DecInputs :
          decrypt_next_in_place(d, ad, ct) /\ UNCHANGED driver
    \/ \E d \in DecIds, ad \in ADs, ct \in DecInputs :
          decrypt_next(d, ad, ct) /\ UNCHANGED driver
    \/ \E d \in DecIds, ad \in ADs, ct \in DecInputs :
          decrypt_last_in_place(d, ad, ct) /\ UNCHANGED driver
    \/ \E d \in DecIds, ad \in ADs, ct \in DecInputs :
          decrypt_last(d, ad, ct) /\ UNCHANGED driver

(***************************************************************************)
(* Spec: an Encryptor under key K1 and any prefix, a Decryptor under any   *)
(* key and any prefix, two messages, streams of at most MaxMsgs messages.  *)
(***************************************************************************)
Next == Step({"K1"}, Keys, Prefixes, Msgs, MaxMsgs)

Spec == Init /\ [][Next]_vars

(***************************************************************************)
(* SpecOverflow: one key, one prefix, one message, and streams as long as  *)
(* the counter allows, so that increment reaches its checked addition's    *)
(* overflow.                                                               *)
(***************************************************************************)
NextOverflow == Step({"K1"}, {"K1"}, {PA, PShort}, {Msg0}, U32_MAX + 2)

SpecOverflow == Init /\ [][NextOverflow]_vars

(***************************************************************************)
(* SpecSwap: the reordering scenario.  An Encryptor produces a stream; the *)
(* attacker exchanges the i-th and the j-th ciphertext of the next type    *)
(* (each travels with its associated data); the caller then drives a fresh *)
(* Decryptor with decrypt_next over the ciphertexts in the delivered       *)
(* order, one call per ciphertext, and records what each call returned.    *)
(***************************************************************************)
Interior(e) == SelectSeq(encLog[e], LAMBDA en : en.kind = "next" /\ en.done)

SwapFeed(d, e, i, j) ==
    /\ feed = NoFeed
    /\ received[d] = <<>>
    /\ i < j
    /\ j <= Len(Interior(e))
    /\ feed' = [d |-> d, i |-> i, j |-> j,
                items |-> [k \in 1..Len(Interior(e)) |->
                             LET src == IF k = i THEN j ELSE IF k = j THEN i ELSE k
                             IN  [ad |-> Interior(e)[src].ad,
                                  ct |-> Interior(e)[src].ct]]]
    /\ UNCHANGED <<encs, decs, encArgs, decArgs, encLog, received, lastCall, results,
                   calls>>

\* The call in this step is the driver's: on the head of the feed, whose
\* result the driver records.
Driven(d, ad, ciphertext) ==
    /\ feed.items # <<>>
    /\ d = feed.d
    /\ ad = Head(feed.items).ad
    /\ ciphertext = Head(feed.items).ct
    /\ feed' = [feed EXCEPT !.items = Tail(@)]
    /\ results' = Append(results, lastCall'.result)
    /\ UNCHANGED calls

NextSwap ==
    \/ \E e \in EncIds : Encryptor_new(e, "K1", PA) /\ UNCHANGED driver
    \/ \E d \in DecIds : Decryptor_new(d, "K1", PA) /\ UNCHANGED driver
    \/ \E e \in CanSend(MaxMsgs), m \in Msgs :
          encrypt_next_in_place(e, m.ad, m.pt) /\ UNCHANGED driver
    \/ \E e \in CanSend(MaxMsgs), m \in Msgs :
          encrypt_next(e, m.ad, m.pt) /\ UNCHANGED driver
    \/ \E e \in CanSend(MaxMsgs), m \in Msgs :
          encrypt_last(e, m.ad, m.pt) /\ UNCHANGED driver
    \/ \E d \in DecIds, e \in EncIds, i \in 1..MaxMsgs, j \in 1..MaxMsgs :
          SwapFeed(d, e, i, j)
    \/ \E d \in DecIds, ad \in ADs, ct \in DecInputs :
          decrypt_next_in_place(d, ad, ct) /\ Driven(d, ad, ct)
    \/ \E d \in DecIds, ad \in ADs, ct \in DecInputs :
          decrypt_next(d, ad, ct) /\ Driven(d, ad, ct)

SpecSwap == Init /\ [][NextSwap]_vars

(***************************************************************************)
(* SpecRetry: the recovery scenario.  An Encryptor produces a complete     *)
(* stream; the caller drives a fresh Decryptor over it in order, with the  *)
(* method that matches each message, and between those calls makes up to   *)
(* MaxRetries decrypt_next calls on anything else: a tampered or foreign   *)
(* ciphertext, wrong associated data, a message of another position.  The  *)
(* caller records what each call returned.                                 *)
(***************************************************************************)
LoadFeed(d, e) ==
    /\ feed = NoFeed
    /\ encs[e].state = "Consumed"
    /\ decs[d].state = "Active"
    /\ feed' = [d |-> d, i |-> 0, j |-> 0,
                items |-> [k \in 1..Len(encLog[e]) |->
                             [ad |-> encLog[e][k].ad, ct |-> encLog[e][k].ct,
                              kind |-> encLog[e][k].kind]]]
    /\ UNCHANGED <<encs, decs, encArgs, decArgs, encLog, received, lastCall, results,
                   calls>>

Errs == { k \in DOMAIN results : results[k] = "err" }

Oks == { k \in DOMAIN results : results[k] = "ok" }

\* The call in this step is on the message the stream has at the
\* Decryptor's position, by the method of its kind.
Delivered(d, ad, ciphertext, kind) ==
    /\ Driven(d, ad, ciphertext)
    /\ Head(feed.items).kind = kind

\* The call in this step is on anything but that message.
Retried(d, ad, ciphertext) ==
    /\ feed.items # <<>>
    /\ d = feed.d
    /\ Cardinality(Errs) < MaxRetries
    /\ ~ /\ ad = Head(feed.items).ad
         /\ ciphertext = Head(feed.items).ct
         /\ Head(feed.items).kind = "next"
    /\ results' = Append(results, lastCall'.result)
    /\ UNCHANGED <<feed, calls>>

NextRetry ==
    \/ \E e \in EncIds : Encryptor_new(e, "K1", PA) /\ UNCHANGED driver
    \/ \E d \in DecIds : Decryptor_new(d, "K1", PA) /\ UNCHANGED driver
    \/ \E e \in CanSend(MaxMsgs), m \in Msgs :
          encrypt_next_in_place(e, m.ad, m.pt) /\ UNCHANGED driver
    \/ \E e \in CanSend(MaxMsgs), m \in Msgs :
          encrypt_next(e, m.ad, m.pt) /\ UNCHANGED driver
    \/ \E e \in CanSend(MaxMsgs), m \in Msgs :
          encrypt_last_in_place(e, m.ad, m.pt) /\ UNCHANGED driver
    \/ \E e \in CanSend(MaxMsgs), m \in Msgs :
          encrypt_last(e, m.ad, m.pt) /\ UNCHANGED driver
    \/ \E d \in DecIds, e \in EncIds : LoadFeed(d, e)
    \/ \E d \in DecIds, ad \in ADs, ct \in DecInputs :
          decrypt_next_in_place(d, ad, ct) /\ Delivered(d, ad, ct, "next")
    \/ \E d \in DecIds, ad \in ADs, ct \in DecInputs :
          decrypt_next(d, ad, ct) /\ Delivered(d, ad, ct, "next")
    \/ \E d \in DecIds, ad \in ADs, ct \in DecInputs :
          decrypt_last_in_place(d, ad, ct) /\ Delivered(d, ad, ct, "last")
    \/ \E d \in DecIds, ad \in ADs, ct \in DecInputs :
          decrypt_last(d, ad, ct) /\ Delivered(d, ad, ct, "last")
    \/ \E d \in DecIds, ad \in ADs, ct \in DecInputs :
          decrypt_next_in_place(d, ad, ct) /\ Retried(d, ad, ct)
    \/ \E d \in DecIds, ad \in ADs, ct \in DecInputs :
          decrypt_next(d, ad, ct) /\ Retried(d, ad, ct)

SpecRetry == Init /\ [][NextRetry]_vars

(***************************************************************************)
(* SpecMix: one Encryptor and one Decryptor of the same key and prefix,    *)
(* the caller choosing the in-place or the allocating variant anew at each *)
(* call and recording the call.  The caller makes at most MaxMsgs calls on *)
(* the Encryptor and, once the stream is complete, as many on the          *)
(* Decryptor as the stream has messages, each on any ciphertext of the     *)
(* stream or on none.                                                      *)
(***************************************************************************)
Receiving(e) ==
    /\ encs[e].state = "Consumed"
    /\ Len(calls) < 2 * Len(encLog[e])

Recorded ==
    /\ calls' = Append(calls, [op |-> lastCall'.op, nonce |-> lastCall'.nonce,
                               result |-> lastCall'.result])
    /\ UNCHANGED <<feed, results>>

NextMix ==
    \/ \E e \in EncIds : Encryptor_new(e, "K1", PA) /\ UNCHANGED driver
    \/ \E d \in DecIds : Decryptor_new(d, "K1", PA) /\ UNCHANGED driver
    \/ \E e \in CanSend(MaxMsgs) :
          encrypt_next_in_place(e, Msg0.ad, Msg0.pt) /\ Recorded
    \/ \E e \in CanSend(MaxMsgs) :
          encrypt_next(e, Msg0.ad, Msg0.pt) /\ Recorded
    \/ \E e \in CanSend(MaxMsgs) :
          encrypt_last_in_place(e, Msg0.ad, Msg0.pt) /\ Recorded
    \/ \E e \in CanSend(MaxMsgs) :
          encrypt_last(e, Msg0.ad, Msg0.pt) /\ Recorded
    \/ \E d \in DecIds, ct \in Wire \cup {NoCt} :
          Receiving(1) /\ decrypt_next_in_place(d, Msg0.ad, ct) /\ Recorded
    \/ \E d \in DecIds, ct \in Wire \cup {NoCt} :
          Receiving(1) /\ decrypt_next(d, Msg0.ad, ct) /\ Recorded
    \/ \E d \in DecIds, ct \in Wire \cup {NoCt} :
          Receiving(1) /\ decrypt_last_in_place(d, Msg0.ad, ct) /\ Recorded
    \/ \E d \in DecIds, ct \in Wire \cup {NoCt} :
          Receiving(1) /\ decrypt_last(d, Msg0.ad, ct) /\ Recorded

SpecMix == Init /\ [][NextMix]_vars

(***************************************************************************)
(* SpecMulti: two Encryptors and two Decryptors alive at once under one    *)
(* key, each Encryptor built with either prefix and each Decryptor with    *)
(* the first, so that instances share key and prefix; every call on every *)
(* instance in every interleaving, each Encryptor making at most           *)
(* MaxMultiMsgs AEAD calls.  A Decryptor is given any ciphertext of any    *)
(* Encryptor, or a forgery.                                                *)
(***************************************************************************)
MultiSenders == { e \in Encryptors : Len(encLog[e]) < MaxMultiMsgs }

NextMulti ==
    \/ \E e \in Encryptors, p \in {PA, PB} :
          Encryptor_new(e, "K1", p) /\ UNCHANGED driver
    \/ \E d \in Decryptors, p \in {PA} :
          Decryptor_new(d, "K1", p) /\ UNCHANGED driver
    \/ \E e \in MultiSenders :
          encrypt_next_in_place(e, Msg0.ad, Msg0.pt) /\ UNCHANGED driver
    \/ \E e \in MultiSenders :
          encrypt_next(e, Msg0.ad, Msg0.pt) /\ UNCHANGED driver
    \/ \E e \in MultiSenders :
          encrypt_last_in_place(e, Msg0.ad, Msg0.pt) /\ UNCHANGED driver
    \/ \E e \in MultiSenders :
          encrypt_last(e, Msg0.ad, Msg0.pt) /\ UNCHANGED driver
    \/ \E d \in Decryptors, ct \in Wire \cup {NoCt} :
          decrypt_next_in_place(d, Msg0.ad, ct) /\ UNCHANGED driver
    \/ \E d \in Decryptors, ct \in Wire \cup {NoCt} :
          decrypt_next(d, Msg0.ad, ct) /\ UNCHANGED driver
    \/ \E d \in Decryptors, ct \in Wire \cup {NoCt} :
          decrypt_last_in_place(d, Msg0.ad, ct) /\ UNCHANGED driver
    \/ \E d \in Decryptors, ct \in Wire \cup {NoCt} :
          decrypt_last(d, Msg0.ad, ct) /\ UNCHANGED driver

SpecMulti == Init /\ [][NextMulti]_vars

(***************************************************************************)
(* Vocabulary of the properties.                                           *)
(***************************************************************************)
EncNextOps == {"encrypt_next_in_place", "encrypt_next"}

EncLastOps == {"encrypt_last_in_place", "encrypt_last"}

DecNextOps == {"decrypt_next_in_place", "decrypt_next"}

DecLastOps == {"decrypt_last_in_place", "decrypt_last"}

\* The big-endian encoding of k on four bytes, written independently of
\* to_be_bytes.
Be32(k) == [i \in 1..4 |-> (k \div (256 ^ (4 - i))) % 256]

\* prefix || be32(k) || flag
StreamNonceOf(prefix, k, flag) == prefix \o Be32(k) \o <<flag>>

\* The (associated data, plaintext) pairs of a log, in order.
Plain(log) == [i \in 1..Len(log) |-> [ad |-> log[i].ad, pt |-> log[i].pt]]

\* Decryptor d was constructed from the key and prefix of Encryptor e.
SameKeyPrefix(d, e) ==
    /\ encs[e].state # "Unbuilt"
    /\ decs[d].state # "Unbuilt"
    /\ decArgs[d] = encArgs[e]

\* The step is a call of one of ops on object id.
IsCall(ops, id) == lastCall'.op \in ops /\ lastCall'.id = id

(***************************************************************************)
(* C1  Round trip.  Whenever a Decryptor built from the key and prefix of  *)
(* an Encryptor has so far returned the first k plaintexts of that         *)
(* Encryptor's stream and is given the (k+1)-th ciphertext with its        *)
(* associated data, through decrypt_next if encrypt_next produced it and   *)
(* through decrypt_last if encrypt_last did, the call returns success and  *)
(* yields the (k+1)-th plaintext.  By induction on k, the whole stream     *)
(* decrypts to the original plaintexts.                                    *)
(***************************************************************************)
GenuineCall(d, e) ==
    LET k == Len(received[d]) IN
    /\ IsCall(DecNextOps \cup DecLastOps, d)
    /\ decs[d].state = "Active"
    /\ SameKeyPrefix(d, e)
    /\ k < Len(encLog[e])
    /\ received[d] = SubSeq(Plain(encLog[e]), 1, k)
    /\ encLog[e][k + 1].done
    /\ lastCall'.ct = encLog[e][k + 1].ct
    /\ lastCall'.ad = encLog[e][k + 1].ad
    /\ (lastCall'.op \in DecLastOps) = (encLog[e][k + 1].kind = "last")

C1_RoundTrip ==
    [][ \A d \in DecIds, e \in EncIds :
          GenuineCall(d, e) =>
             /\ lastCall'.result = "ok"
             /\ received'[d] = SubSeq(Plain(encLog[e]), 1, Len(received[d]) + 1) ]_vars

C1_Witness ==
    /\ SameKeyPrefix(1, 1)
    /\ Len(encLog[1]) >= 3
    /\ encLog[1][Len(encLog[1])].kind = "last"
    /\ encLog[1][1].pt # encLog[1][2].pt
    /\ received[1] = Plain(encLog[1])
    /\ lastCall.op \in DecLastOps /\ lastCall.result = "ok"

(***************************************************************************)
(* C2  Nonce monotonicity.  The i-th AEAD call of an Encryptor built with  *)
(* prefix P follows i-1 calls of the next type and uses the nonce          *)
(* P || be32(i-1) || 0x00 if it is of the next type, P || be32(i-1) ||     *)
(* 0x01 if it is of the last type, in both variants; a Decryptor call made *)
(* after k successful next-type calls uses P || be32(k) || flag likewise.  *)
(***************************************************************************)
C2_NonceMonotonicity ==
    /\ \A e \in EncIds : \A i \in DOMAIN encLog[e] :
          /\ \A j \in 1..(i - 1) : encLog[e][j].kind = "next" /\ encLog[e][j].done
          /\ encLog[e][i].nonce =
                StreamNonceOf(encArgs[e].nonce, i - 1,
                              IF encLog[e][i].kind = "last" THEN 1 ELSE 0)
    /\ lastCall.op \in EncNextOps \cup EncLastOps =>
          /\ encLog[lastCall.id] # <<>>
          /\ lastCall.nonce = encLog[lastCall.id][Len(encLog[lastCall.id])].nonce
          /\ (lastCall.op \in EncLastOps) =
                (encLog[lastCall.id][Len(encLog[lastCall.id])].kind = "last")
    /\ lastCall.op \in DecNextOps \cup DecLastOps =>
          LET d == lastCall.id
              k == Len(received[d]) - (IF lastCall.result = "ok" THEN 1 ELSE 0)
          IN  lastCall.nonce =
                StreamNonceOf(decArgs[d].nonce, k,
                              IF lastCall.op \in DecLastOps THEN 1 ELSE 0)

C2_Witness ==
    /\ lastCall.op = "encrypt_last_in_place"
    /\ lastCall.nonce = <<0, 0, 0, 0, 0, 0, 0, 1, 0, 0, 0, 2, 1>>
    /\ encLog[1][2].nonce = <<0, 0, 0, 0, 0, 0, 0, 1, 0, 0, 0, 1, 0>>
    /\ received[1] # <<>>

(***************************************************************************)
(* C3  Stream integrity.  Whatever the attacker delivers, what a Decryptor *)
(* has returned is at every moment a prefix of what the Encryptor with the *)
(* same key and prefix encrypted, and once decrypt_last has returned       *)
(* success it is the whole stream, which ends with the message of          *)
(* encrypt_last.                                                           *)
(***************************************************************************)
IsPrefix(s, t) == Len(s) <= Len(t) /\ s = SubSeq(t, 1, Len(s))

Completed(log) == SelectSeq(log, LAMBDA en : en.done)

C3_StreamIntegrity ==
    \A d \in DecIds, e \in EncIds :
       SameKeyPrefix(d, e) =>
          /\ IsPrefix(received[d], Plain(Completed(encLog[e])))
          /\ (lastCall.op \in DecLastOps /\ lastCall.id = d /\ lastCall.result = "ok") =>
                /\ encLog[e] # <<>>
                /\ encLog[e][Len(encLog[e])].kind = "last"
                /\ received[d] = Plain(encLog[e])

\* A replayed interior message presented as final, after the final message
\* was dropped: authentication failure.
C3_Witness ==
    /\ SameKeyPrefix(1, 1)
    /\ Len(encLog[1]) = 3 /\ encLog[1][3].kind = "last"
    /\ Len(received[1]) = 2
    /\ lastCall.op \in DecLastOps /\ lastCall.id = 1
    /\ lastCall.ct = encLog[1][2].ct /\ lastCall.ad = encLog[1][2].ad
    /\ lastCall.result = "err"

(***************************************************************************)
(* C4  Terminal binding.  decrypt_last fails on every ciphertext that an   *)
(* encrypt_next produced and decrypt_next fails on every ciphertext that   *)
(* an encrypt_last produced, at every counter position; what decrypt_last  *)
(* accepts was produced by the encrypt_last of the Encryptor with the same *)
(* key and prefix and by no encrypt_next.                                  *)
(***************************************************************************)
ProducedBy(kind, e, ciphertext) ==
    \E i \in DOMAIN encLog[e] :
       encLog[e][i].kind = kind /\ encLog[e][i].ct = ciphertext

C4_TerminalBinding ==
    /\ (lastCall.op \in DecLastOps /\ \E e \in EncIds : ProducedBy("next", e, lastCall.ct))
          => lastCall.result = "err"
    /\ (lastCall.op \in DecNextOps /\ \E e \in EncIds : ProducedBy("last", e, lastCall.ct))
          => lastCall.result = "err"
    /\ (lastCall.op \in DecLastOps /\ lastCall.result = "ok") =>
          /\ \E e \in EncIds : SameKeyPrefix(lastCall.id, e)
                                 /\ ProducedBy("last", e, lastCall.ct)
          /\ \A e \in EncIds : ~ProducedBy("next", e, lastCall.ct)

\* The ciphertext of encrypt_next at position 1, with its associated data,
\* given to decrypt_last by a Decryptor at position 1.
C4_Witness ==
    /\ SameKeyPrefix(1, 1)
    /\ lastCall.op \in DecLastOps /\ lastCall.id = 1
    /\ Len(received[1]) = 1
    /\ Len(encLog[1]) >= 2 /\ encLog[1][2].kind = "next"
    /\ lastCall.ct = encLog[1][2].ct /\ lastCall.ad = encLog[1][2].ad
    /\ lastCall.nonce = [encLog[1][2].nonce EXCEPT ![13] = 1]
    /\ lastCall.result = "err"

(***************************************************************************)
(* C5  Reordering detection.  In SpecSwap the i-th and j-th interior       *)
(* ciphertexts (i < j) are exchanged, so the j-th call of the driver is    *)
(* the one that processes the second of the two to be decrypted.           *)
(*                                                                         *)
(* As stated: that j-th call reports the authentication failure.           *)
(***************************************************************************)
C5_FailureOnSecondSwapped ==
    (feed.j > 0 /\ Len(results) >= feed.j) => results[feed.j] = "err"

(***************************************************************************)
(* C5, amended.  The authentication failure is reported by the call that   *)
(* processes the first of the two swapped ciphertexts to be decrypted,     *)
(* the i-th call; the calls before it succeed.                             *)
(***************************************************************************)
C5_FailureOnFirstSwapped ==
    feed.j > 0 =>
       \A k \in 1..Len(results) :
          /\ k < feed.i => results[k] = "ok"
          /\ k = feed.i => results[k] = "err"

C5_Witness ==
    /\ feed.i = 2 /\ feed.j = 3
    /\ Len(results) = 3
    /\ results[1] = "ok" /\ results[2] = "err"
    /\ lastCall.op \in DecNextOps

(***************************************************************************)
(* C6  Overflow boundary.  With a counter of CounterBits bits, the first   *)
(* 2^CounterBits - 1 next-type calls of an Encryptor return and the        *)
(* 2^CounterBits-th panics in increment; the counter never exceeds         *)
(* 2^CounterBits - 1, never wraps and never decreases, so at most          *)
(* 2^CounterBits - 1 next-type calls ever complete.                        *)
(***************************************************************************)
NextCalls(e) == { i \in DOMAIN encLog[e] : encLog[e][i].kind = "next" }

C6_OverflowBoundary ==
    /\ [](\A e \in EncIds :
            /\ encs[e].nonce.counter \in 0..(2 ^ CounterBits - 1)
            /\ \A i \in NextCalls(e) :
                  encLog[e][i].done = (i <= 2 ^ CounterBits - 1)
            /\ encs[e].nonce.counter =
                  Cardinality({ i \in NextCalls(e) : encLog[e][i].done })
            /\ (2 ^ CounterBits) \in NextCalls(e) =>
                  /\ encs[e].state = "Panicked"
                  /\ Len(encLog[e]) = 2 ^ CounterBits)
    /\ [][ \A e \in EncIds :
             \/ encs'[e].nonce.counter = encs[e].nonce.counter
             \/ /\ encs'[e].nonce.counter = encs[e].nonce.counter + 1
                /\ IsCall(EncNextOps, e) ]_vars

C6_Witness ==
    /\ encs[1].state = "Panicked"
    /\ Len(encLog[1]) = 2 ^ CounterBits
    /\ encs[1].nonce.counter = 2 ^ CounterBits - 1
    /\ lastCall.op \in EncNextOps /\ lastCall.result = "panic"

(***************************************************************************)
(* C7  Consumption.  A last-type call leaves its object Consumed, on an    *)
(* Encryptor and on a Decryptor whether it returned success or failure; a  *)
(* Consumed object is never called again and never changes, so it used     *)
(* exactly one nonce with terminal flag 1 and none after it.               *)
(***************************************************************************)
LastCalls(e) == { i \in DOMAIN encLog[e] : encLog[e][i].nonce[NONCE_SIZE + 5] = 1 }

AllOps == EncNextOps \cup EncLastOps \cup DecNextOps \cup DecLastOps

C7_Consumption ==
    /\ [](\A e \in EncIds :
            /\ LastCalls(e) = { i \in DOMAIN encLog[e] : encLog[e][i].kind = "last" }
            /\ (encs[e].state = "Consumed") = (LastCalls(e) # {})
            /\ LastCalls(e) \subseteq {Len(encLog[e])})
    /\ [](lastCall.op \in EncLastOps => encs[lastCall.id].state = "Consumed")
    /\ [](lastCall.op \in DecLastOps =>
            /\ decs[lastCall.id].state = "Consumed"
            /\ lastCall.nonce[NONCE_SIZE + 5] = 1)
    /\ [][ \A e \in EncIds :
             encs[e].state = "Consumed" =>
                /\ encs'[e] = encs[e]
                /\ encLog'[e] = encLog[e]
                /\ ~(lastCall'.op \in EncNextOps \cup EncLastOps /\ lastCall'.id = e) ]_vars
    /\ [][ \A d \in DecIds :
             decs[d].state = "Consumed" =>
                /\ decs'[d] = decs[d]
                /\ received'[d] = received[d]
                /\ ~(lastCall'.op \in DecNextOps \cup DecLastOps /\ lastCall'.id = d) ]_vars

C7_Witness ==
    /\ encs[1].state = "Consumed"
    /\ decs[1].state = "Consumed"
    /\ Len(encLog[1]) >= 2
    /\ lastCall.op \in DecLastOps /\ lastCall.result = "err"

(***************************************************************************)
(* C8  decrypt_next and decrypt_next_in_place.                             *)
(*                                                                         *)
(* As stated: when the AEAD decryption succeeds the sequencer advances by  *)
(* exactly one; when the AEAD fails the call returns the failure and the   *)
(* sequencer is exactly as before.                                         *)
(***************************************************************************)
AeadOk(d) == Aead_decrypt(decs[d].alg, lastCall'.nonce, lastCall'.ad, lastCall'.ct).ok

Advanced(d) ==
    /\ decs'[d].state = "Active"
    /\ decs'[d].alg = decs[d].alg
    /\ decs'[d].nonce.counter = decs[d].nonce.counter + 1
    /\ decs'[d].nonce.value =
          StreamNonceOf(decArgs[d].nonce, decs[d].nonce.counter + 1, 0)

FailureLeavesSequencer(d) ==
    ~AeadOk(d) => lastCall'.result = "err" /\ decs'[d] = decs[d]

C8_AdvanceOnAeadSuccess ==
    [][ \A d \in DecIds :
          IsCall(DecNextOps, d) =>
             /\ AeadOk(d) => Advanced(d)
             /\ FailureLeavesSequencer(d) ]_vars

(***************************************************************************)
(* C8, amended.  When the AEAD decryption succeeds and the counter is      *)
(* below its maximum the sequencer advances by exactly one and the call    *)
(* returns the plaintext; when it succeeds at the maximum, increment       *)
(* panics, the call returns nothing and the sequencer is not advanced;     *)
(* when the AEAD fails the call returns the failure and the sequencer is   *)
(* exactly as before.                                                      *)
(***************************************************************************)
C8_AdvanceBelowMaximum ==
    [][ \A d \in DecIds :
          IsCall(DecNextOps, d) =>
             /\ (AeadOk(d) /\ decs[d].nonce.counter < 2 ^ CounterBits - 1) =>
                   Advanced(d) /\ lastCall'.result = "ok"
             /\ (AeadOk(d) /\ decs[d].nonce.counter = 2 ^ CounterBits - 1) =>
                   /\ lastCall'.result = "panic"
                   /\ decs'[d].nonce = decs[d].nonce
                   /\ received'[d] = received[d]
             /\ FailureLeavesSequencer(d) ]_vars

C8_Witness ==
    /\ lastCall.op \in DecNextOps /\ lastCall.result = "err"
    /\ decs[1].state = "Active"
    /\ decs[1].nonce.counter = 2
    /\ Len(received[1]) = 2
    /\ lastCall.ct \in Wire

(***************************************************************************)
(* C9  Tamper detection.  A decrypt call that does not fail was given      *)
(* exactly the ciphertext and the associated data of the message the       *)
(* Encryptor produced for the Decryptor's position, and ran the AEAD under *)
(* the very nonce the Encryptor used for it: any difference in             *)
(* ciphertext, associated data, prefix, counter or terminal flag is an     *)
(* authentication failure.                                                 *)
(***************************************************************************)
Position(d) ==
    Len(received[d]) + (IF lastCall.result = "ok" THEN 0 ELSE 1)

C9_TamperDetection ==
    \A d \in DecIds :
       (lastCall.op \in DecNextOps \cup DecLastOps /\ lastCall.id = d) =>
          \/ lastCall.result = "err"
          \/ \E e \in EncIds :
                /\ SameKeyPrefix(d, e)
                /\ Position(d) \in DOMAIN encLog[e]
                /\ lastCall.ct = encLog[e][Position(d)].ct
                /\ lastCall.ad = encLog[e][Position(d)].ad
                /\ lastCall.nonce = encLog[e][Position(d)].nonce

\* The second ciphertext of the stream altered and given, with the right
\* associated data, to decrypt_next for the second message.
C9_Witness ==
    /\ SameKeyPrefix(1, 1)
    /\ Len(encLog[1]) >= 2
    /\ Len(received[1]) = 1
    /\ lastCall.op \in DecNextOps /\ lastCall.id = 1
    /\ lastCall.ct = Tamper(encLog[1][2].ct)
    /\ lastCall.ad = encLog[1][2].ad
    /\ lastCall.nonce = encLog[1][2].nonce
    /\ lastCall.result = "err"

(***************************************************************************)
(* C10  Construction.  new with a prefix that is not exactly 8 bytes long  *)
(* panics and no object exists; with a prefix of 8 bytes it returns an     *)
(* object whose counter is 0 and whose nonce is the prefix followed by     *)
(* four zero counter bytes and a zero terminal flag.                       *)
(***************************************************************************)
Constructed(obj, args) ==
    IF Len(args.nonce) = 8
    THEN (obj.state = "Panicked" => obj.alg # "none")
         /\ obj.alg = args.key
         /\ SubSeq(obj.nonce.value, 1, 8) = args.nonce
         /\ Len(obj.nonce.value) = 13
    ELSE obj = [state |-> "Panicked", alg |-> "none", nonce |-> NoNonce]

FreshObject(obj, args) ==
    Len(args.nonce) = 8 =>
       /\ obj.state = "Active"
       /\ obj.nonce.counter = 0
       /\ obj.nonce.value = args.nonce \o <<0, 0, 0, 0, 0>>

Encoded(obj, args) ==
    (obj.state # "Unbuilt" /\ obj.alg # "none") =>
       /\ Len(obj.nonce.value) = 13
       /\ SubSeq(obj.nonce.value, 1, 8) = args.nonce
       /\ SubSeq(obj.nonce.value, 9, 12) = Be32(obj.nonce.counter)
       /\ obj.nonce.value[13] = (IF obj.state = "Consumed" THEN 1 ELSE 0)

C11_EncodingInvariant ==
    /\ \A e \in EncIds : Encoded(encs[e], encArgs[e])
    /\ \A d \in DecIds : Encoded(decs[d], decArgs[d])
    /\ lastCall.op \in EncLastOps =>
          lastCall.nonce = encs[lastCall.id].nonce.value /\ lastCall.nonce[13] = 1
    /\ lastCall.op \in DecLastOps =>
          lastCall.nonce = decs[lastCall.id].nonce.value /\ lastCall.nonce[13] = 1
    /\ lastCall.op \in DecNextOps /\ lastCall.result = "err" =>
          lastCall.nonce = decs[lastCall.id].nonce.value /\ lastCall.nonce[13] = 0

\* A Decryptor that advanced twice and then failed, next to an Encryptor
\* that finish consumed after two advances.
C11_Witness ==
    /\ lastCall.op \in DecNextOps /\ lastCall.result = "err"
    /\ decs[1].state = "Active"
    /\ decs[1].nonce = [value |-> <<0, 0, 0, 0, 0, 0, 0, 1, 0, 0, 0, 2, 0>>,
                        counter |-> 2]
    /\ encs[1].state = "Consumed"
    /\ encs[1].nonce = [value |-> <<0, 0, 0, 0, 0, 0, 0, 1, 0, 0, 0, 2, 1>>,
                        counter |-> 2]

(***************************************************************************)
(* C12  Nonce uniqueness within one lifetime.  On one Encryptor the        *)
(* counter is raised by one by each next-type call that returns and is     *)
(* changed by nothing else, and no two AEAD encryptions of the Encryptor,  *)
(* of the next or of the last type, used the same 13-byte nonce.           *)
(***************************************************************************)
C12_NonceUniqueness ==
    /\ [](\A e \in EncIds : \A i, j \in DOMAIN encLog[e] :
            i # j => encLog[e][i].nonce # encLog[e][j].nonce)
    /\ [][ \A e \in EncIds :
             encs[e].state # "Unbuilt" =>
                IF IsCall(EncNextOps, e) /\ lastCall'.result = "ok"
                THEN encs'[e].nonce.counter = encs[e].nonce.counter + 1
                ELSE encs'[e].nonce.counter = encs[e].nonce.counter ]_vars

\* Every next-type call the counter allows, then the last-type call.
C12_Witness ==
    /\ encs[1].state = "Consumed"
    /\ Len(encLog[1]) = 2 ^ CounterBits
    /\ encLog[1][Len(encLog[1])].kind = "last"
    /\ encs[1].nonce.counter = 2 ^ CounterBits - 1

(***************************************************************************)
(* C13  Instance independence.  A call on one instance, whatever it        *)
(* returns and whether or not it consumes the instance, leaves every other *)
(* Encryptor and Decryptor exactly as it was: key, counter, encoded nonce  *)
(* and lifecycle state, and with them what the instance has produced.      *)
(***************************************************************************)
OnEncryptor(e) ==
    /\ lastCall'.op \in EncNextOps \cup EncLastOps \cup {"Encryptor_new"}
    /\ lastCall'.id = e

OnDecryptor(d) ==
    /\ lastCall'.op \in DecNextOps \cup DecLastOps \cup {"Decryptor_new"}
    /\ lastCall'.id = d

C13_InstanceIndependence ==
    [][ /\ \A e \in Encryptors :
             ~OnEncryptor(e) => encs'[e] = encs[e] /\ encLog'[e] = encLog[e]
        /\ \A d \in Decryptors :
             ~OnDecryptor(d) => decs'[d] = decs[d] /\ received'[d] = received[d] ]_vars

\* Two Encryptors and two Decryptors of one key and prefix, at different
\* positions and in different lifecycle states, after a failed decrypt_last.
C13_Witness ==
    /\ encArgs[1] = encArgs[2] /\ decArgs[1] = decArgs[2] /\ encArgs[1] = decArgs[1]
    /\ encs[1].state = "Consumed" /\ encs[1].nonce.counter = 0
    /\ encs[2].state = "Active" /\ encs[2].nonce.counter = 1
    /\ decs[1].state = "Consumed" /\ decs[1].nonce.counter = 0
    /\ decs[2].state = "Active" /\ decs[2].nonce.counter = 1
    /\ lastCall.op \in DecLastOps /\ lastCall.id = 1 /\ lastCall.result = "err"

(***************************************************************************)
(* C14  The last-type operations never fail with counter overflow.  A      *)
(* last-type call panics in no state, leaves the counter as it was and     *)
(* uses the nonce prefix || be32(counter) || 0x01, at the maximum counter  *)
(* 2^CounterBits - 1 as at any other; it is enabled in every Active state; *)
(* and so a completed stream has at most 2^CounterBits - 1 next messages   *)
(* followed by its one last message.                                       *)
(***************************************************************************)
LastCallNeverOverflows(obj, obj2, args) ==
    /\ obj.state = "Active"
    /\ lastCall'.result # "panic"
    /\ obj2.state = "Consumed"
    /\ obj2.nonce.counter = obj.nonce.counter
    /\ lastCall'.nonce = StreamNonceOf(args.nonce, obj.nonce.counter, 1)

C14_LastNeverOverflows ==
    /\ [][ /\ \A e \in EncIds :
                 IsCall(EncLastOps, e) =>
                    /\ LastCallNeverOverflows(encs[e], encs'[e], encArgs[e])
                    /\ lastCall'.result = "ok"
                    /\ lastCall'.ct \in Wire'
            /\ \A d \in DecIds :
                 IsCall(DecLastOps, d) =>
                    LastCallNeverOverflows(decs[d], decs'[d], decArgs[d]) ]_vars
    /\ [](\A e \in EncIds :
             /\ encs[e].state = "Active" =>
                   /\ ENABLED encrypt_last(e, Msg0.ad, Msg0.pt)
                   /\ ENABLED encrypt_last_in_place(e, Msg0.ad, Msg0.pt)
             /\ encs[e].state = "Consumed" =>
                   /\ Len(encLog[e]) <= 2 ^ CounterBits
                   /\ \A i \in 1..Len(encLog[e]) :
                         encLog[e][i].kind = "last" <=> i = Len(encLog[e]))
    /\ [](\A d \in DecIds :
             decs[d].state = "Active" =>
                /\ ENABLED decrypt_last(d, Msg0.ad, NoCt)
                /\ ENABLED decrypt_last_in_place(d, Msg0.ad, NoCt))

\* The longest stream, received whole: the Decryptor has just accepted the
\* last message at the maximum counter.
C14_Witness ==
    /\ lastCall.op \in DecLastOps /\ lastCall.result = "ok"
    /\ lastCall.nonce = StreamNonceOf(PA, 2 ^ CounterBits - 1, 1)
    /\ decs[1].state = "Consumed" /\ decs[1].nonce.counter = 2 ^ CounterBits - 1
    /\ encs[1].state = "Consumed" /\ encs[1].nonce.counter = 2 ^ CounterBits - 1
    /\ Len(encLog[1]) = 2 ^ CounterBits
    /\ received[1] = Plain(encLog[1])

(***************************************************************************)
(* C15  Ordering inside a next-type call.  Every next-type call hands the  *)
(* AEAD the nonce of the counter it starts with, before increment runs.    *)
(* So the call that panics on overflow has already made its AEAD call      *)
(* under prefix || be32(2^CounterBits - 1) || 0x00: the Encryptor has      *)
(* produced the ciphertext, which the in-place variant leaves in the       *)
(* caller's buffer and the allocating variant drops, and the Decryptor has *)
(* authenticated its input under that nonce.  No next-type call panics     *)
(* without that transform having been made.                                *)
(***************************************************************************)
TransformFirst(obj, args) ==
    /\ lastCall'.nonce = StreamNonceOf(args.nonce, obj.nonce.counter, 0)
    /\ lastCall'.result = "panic" => obj.nonce.counter = 2 ^ CounterBits - 1

Sealed(e) ==
    /\ Len(encLog'[e]) = Len(encLog[e]) + 1
    /\ LET entry == encLog'[e][Len(encLog'[e])]
       IN  /\ entry.nonce = lastCall'.nonce
           /\ entry.ct = Aead_encrypt(encs[e].alg, lastCall'.nonce,
                                      lastCall'.ad, entry.pt)
           /\ entry.avail <=>
                 (lastCall'.result = "ok" \/ lastCall'.op = "encrypt_next_in_place")
           /\ entry.avail => lastCall'.ct = entry.ct
           /\ ~entry.avail => lastCall'.ct = NoCt

C15_TransformBeforeIncrement ==
    [][ /\ \A e \in EncIds :
             IsCall(EncNextOps, e) =>
                TransformFirst(encs[e], encArgs[e]) /\ Sealed(e)
        /\ \A d \in DecIds :
             IsCall(DecNextOps, d) =>
                /\ TransformFirst(decs[d], decArgs[d])
                /\ lastCall'.result = "panic" => AeadOk(d) ]_vars

\* The Decryptor has panicked on the ciphertext that the overflowing
\* encrypt_next_in_place left in the caller's buffer.
C15_Witness ==
    /\ lastCall.op \in DecNextOps /\ lastCall.result = "panic"
    /\ lastCall.nonce = StreamNonceOf(PA, 2 ^ CounterBits - 1, 0)
    /\ decs[1].state = "Panicked"
    /\ encs[1].state = "Panicked"
    /\ Len(encLog[1]) = 2 ^ CounterBits
    /\ encLog[1][Len(encLog[1])].avail
    /\ encLog[1][Len(encLog[1])].ct = lastCall.ct
    /\ ~encLog[1][Len(encLog[1])].done

(***************************************************************************)
(* C16  Recoverability after a failed decrypt_next.  However many          *)
(* decrypt_next calls have returned an authentication failure, the         *)
(* Decryptor is Active at the position it had: its state is that of a      *)
(* Decryptor that made the successful calls only, so it holds no trace of  *)
(* a failure.  Every call on the genuine message of that position, by      *)
(* decrypt_next or decrypt_last as the message requires, then succeeds,    *)
(* and the stream is received whole and in order.                          *)
(***************************************************************************)
AfterSuccessesOnly(d, k) ==
    [state |-> "Active", alg |-> decArgs[d].key,
     nonce |-> [value |-> StreamNonceOf(decArgs[d].nonce, k, 0), counter |-> k]]

C16_Recoverability ==
    \A d \in DecIds, e \in EncIds :
       feed.d = d =>
          /\ \A k \in DOMAIN results : results[k] \in {"ok", "err"}
          /\ Len(feed.items) = Len(encLog[e]) - Cardinality(Oks)
          /\ received[d] = SubSeq(Plain(encLog[e]), 1, Cardinality(Oks))
          /\ feed.items # <<>> => decs[d] = AfterSuccessesOnly(d, Cardinality(Oks))
          /\ feed.items = <<>> =>
                decs[d].state = "Consumed" /\ received[d] = Plain(encLog[e])

\* A stream of three messages received whole, each message after a failed
\* decrypt_next.
C16_Witness ==
    /\ feed.d = 1 /\ feed.items = <<>>
    /\ results = <<"err", "ok", "err", "ok", "err", "ok">>
    /\ Len(encLog[1]) = 3
    /\ received[1] = Plain(encLog[1])
    /\ decs[1].state = "Consumed"
    /\ lastCall.op \in DecLastOps /\ lastCall.result = "ok"

(***************************************************************************)
(* C17  The in-place and the allocating variants are interchangeable with  *)
(* respect to sequencing.  Whatever mixture of variants the caller uses,   *)
(* the nonce of each call and the state of the sequencer after it are      *)
(* those of the sequence of kinds of the calls, next or last, with no      *)
(* regard to the variant: the i-th Encryptor call uses prefix || be32(n)   *)
(* || flag with n the number of next-type calls before it, a Decryptor     *)
(* call likewise with n the number of successful next-type calls before    *)
(* it, and the counter of either object is the number of its next-type     *)
(* calls that succeeded.                                                   *)
(***************************************************************************)
EncCalls == SelectSeq(calls, LAMBDA c : c.op \in EncNextOps \cup EncLastOps)

DecCalls == SelectSeq(calls, LAMBDA c : c.op \in DecNextOps \cup DecLastOps)

Kind(op) == IF op \in EncNextOps \cup DecNextOps THEN "next" ELSE "last"

\* The next-type calls among the first i - 1 of cs that returned success.
Advances(cs, i) ==
    Cardinality({ k \in 1..(i - 1) : Kind(cs[k].op) = "next" /\ cs[k].result = "ok" })

NoncesOfKinds(cs, prefix) ==
    \A i \in DOMAIN cs :
       cs[i].nonce = StreamNonceOf(prefix, Advances(cs, i),
                                   IF Kind(cs[i].op) = "last" THEN 1 ELSE 0)

SequencerOfKinds(obj, cs) ==
    /\ obj.nonce.counter = Advances(cs, Len(cs) + 1)
    /\ obj.state = "Consumed" <=> (\E i \in DOMAIN cs : Kind(cs[i].op) = "last")
    /\ obj.state = "Active" => obj.nonce.value = StreamNonceOf(PA, obj.nonce.counter, 0)

C17_VariantsInterchangeable ==
    /\ NoncesOfKinds(EncCalls, PA)
    /\ NoncesOfKinds(DecCalls, PA)
    /\ encs[1].state \in {"Active", "Consumed"} => SequencerOfKinds(encs[1], EncCalls)
    /\ decs[1].state \in {"Active", "Consumed"} => SequencerOfKinds(decs[1], DecCalls)

\* A stream produced and received by alternating variants.
C17_Witness ==
    /\ [i \in DOMAIN EncCalls |-> EncCalls[i].op] =
          <<"encrypt_next_in_place", "encrypt_next", "encrypt_last_in_place">>
    /\ [i \in DOMAIN DecCalls |-> DecCalls[i].op] =
          <<"decrypt_next", "decrypt_next_in_place", "decrypt_last">>
    /\ \A i \in DOMAIN calls : calls[i].result = "ok"
    /\ received[1] = Plain(encLog[1])

TypeOK ==
    /\ \A e \in EncIds : encs[e].state \in {"Unbuilt", "Active", "Consumed", "Panicked"}
    /\ \A d \in DecIds : decs[d].state \in {"Unbuilt", "Active", "Consumed", "Panicked"}

====
